---- MODULE Spec2Model ----
(***************************************************************************)
(* The scoring core of the toxicity bot: the lexicon store and matcher     *)
(* (src/src/lexicon_model.py), the heuristic scorer (src/src/model.py),    *)
(* the policy evaluator (src/src/policy.py over src/src/storage.py) and    *)
(* the lexicon compiler (src/src/training/build_hurtlex_model.py).         *)
(*                                                                         *)
(* Strings are sequences of one-character strings.  Weights are integers   *)
(* in thousandths (1.5 is 1500); a score inside `score` is an integer in   *)
(* millionths, and a returned (rounded) score, a threshold and a score     *)
(* handed to decide_action are integers in ten-thousandths (0.85 is 8500). *)
(***************************************************************************)
EXTENDS Integers, Sequences, FiniteSets, TLC

VARIABLES
    artifact,   \* models/hurtlex_model.json as json.load reads it, or None
    LEX,        \* model.LEX: the Lexicon loaded at import, or None
    phase,      \* "import" before model.py ran, then "ready" or "failed"
    error,      \* the exception the import raised, or None
    text,       \* the message content handed to score
    lastHits,   \* what LEX.match returned for text last, or None
    lastPerCat, \* what LEX.summarize returned for those hits, or None
    raw,        \* score's local variables at line 90, before rounding
    scores,     \* the dict score returned for text, or None
    prev,       \* the toxicity returned for the text before a term was appended
    added,      \* the term appended to the text last, or None
    nMore,      \* how many terms were appended
    policies,   \* the policies table: <<guild, channel, label>> -> threshold
    decision,   \* what decide_action returned last under these policies, or None
    table,      \* the lemma file handed to the compiler, or None
    built       \* what build_model returned for it, or None

vars == <<artifact, LEX, phase, error, text, lastHits, lastPerCat, raw, scores, prev,
          added, nMore, policies, decision, table, built>>

\* An optional value is a sequence of at most one element: None is <<>>.
None == <<>>
Some(x) == <<x>>
IsNone(o) == o = <<>>
Val(o) == o[1]

----------------------------------------------------------------------------
(* Characters *)

LowerSeq == <<"a","b","c","d","e","f","g","h","i","j","k","l","m",
              "n","o","p","q","r","s","t","u","v","w","x","y","z">>
UpperSeq == <<"A","B","C","D","E","F","G","H","I","J","K","L","M",
              "N","O","P","Q","R","S","T","U","V","W","X","Y","Z">>
LowerLetters == {LowerSeq[i] : i \in DOMAIN LowerSeq}
UpperLetters == {UpperSeq[i] : i \in DOMAIN UpperSeq}
Digits == {"0","1","2","3","4","5","6","7","8","9"}

LowerMap == [c \in UpperLetters |-> LowerSeq[CHOOSE i \in DOMAIN UpperSeq : UpperSeq[i] = c]]
UpperMap == [c \in LowerLetters |-> UpperSeq[CHOOSE i \in DOMAIN LowerSeq : LowerSeq[i] = c]]

LowerChar(c) == IF c \in UpperLetters THEN LowerMap[c] ELSE c
UpperChar(c) == IF c \in LowerLetters THEN UpperMap[c] ELSE c

\* str.lower() and str.upper()
Lower(s) == [i \in 1..Len(s) |-> LowerChar(s[i])]
Upper(s) == [i \in 1..Len(s) |-> UpperChar(s[i])]

\* [A-Za-z] of _WORD_RE and, under re.I, [a-z] of STEREO_FRAMES
IsLetter(c) == c \in LowerLetters \/ c \in UpperLetters
\* \w and \s of the re module
IsWordChar(c) == IsLetter(c) \/ c \in Digits \/ c = "_"
IsSpace(c) == c \in {" ", "\t", "\n"}

EndsWith(s, suf) ==
    /\ Len(s) >= Len(suf)
    /\ SubSeq(s, Len(s) - Len(suf) + 1, Len(s)) = suf

\* s[:-n]
DropLast(s, n) == SubSeq(s, 1, Len(s) - n)

RECURSIVE Flatten(_)
Flatten(ss) == IF ss = <<>> THEN <<>> ELSE Head(ss) \o Flatten(Tail(ss))

Contains(s, c) == \E i \in 1..Len(s) : s[i] = c

Max2(a, b) == IF a >= b THEN a ELSE b
Min2(a, b) == IF a <= b THEN a ELSE b

----------------------------------------------------------------------------
(* lexicon_model.py: _norm, _tokens, _simple_lemmas *)

\* (text or "").lower(), text an optional string
Norm(t) == Lower(IF IsNone(t) THEN <<>> ELSE Val(t))

\* the first index >= i of s that holds no letter (Len(s)+1 when there is none)
RECURSIVE LetterRunEnd(_, _)
LetterRunEnd(s, i) ==
    IF i <= Len(s) /\ IsLetter(s[i]) THEN LetterRunEnd(s, i + 1) ELSE i

\* _WORD_RE.findall from index i on: [A-Za-z]+(?:'[A-Za-z]+)?
RECURSIVE FindallFrom(_, _)
FindallFrom(s, i) ==
    IF i > Len(s) THEN <<>>
    ELSE IF ~IsLetter(s[i]) THEN FindallFrom(s, i + 1)
    ELSE LET e1 == LetterRunEnd(s, i)
             e2 == IF e1 + 1 <= Len(s) /\ s[e1] = "'" /\ IsLetter(s[e1 + 1])
                   THEN LetterRunEnd(s, e1 + 1)
                   ELSE e1
         IN  <<SubSeq(s, i, e2 - 1)>> \o FindallFrom(s, e2)

\* _tokens, of an optional string
Tokens(t) == FindallFrom(Norm(t), 1)

Suffixes == { <<"s">>, <<"e","s">>, <<"e","d">>, <<"i","n","g">>,
              <<"e","r">>, <<"e","s","t">> }

\* _simple_lemmas with the guard len(t) > len(suf)
SimpleLemmasUnguarded(tok) ==
    LET t == Lower(tok)
    IN  {t}
        \cup (IF Len(t) > 3 /\ EndsWith(t, <<"i","e","s">>)
              THEN {DropLast(t, 3) \o <<"y">>} ELSE {})
        \cup {DropLast(t, Len(suf)) :
                suf \in {x \in Suffixes : Len(t) > Len(x) /\ EndsWith(t, x)}}

SimpleLemmas(tok) ==
    LET t == Lower(tok)
    IN  {t}
        \cup (IF Len(t) > 3 /\ EndsWith(t, <<"i","e","s">>)
              THEN {DropLast(t, 3) \o <<"y">>} ELSE {})
        \cup {DropLast(t, Len(suf)) :
                suf \in {x \in Suffixes : Len(t) > Len(x) + 1 /\ EndsWith(t, x)}}

----------------------------------------------------------------------------
(* lexicon_model.py: Lexicon.__init__ *)

ALWAYS_FLAG_CATS == { <<"P","S">>, <<"D","D","P">>, <<"D","D","F">>,
                      <<"C","D","S">>, <<"A","S","M">>, <<"A","S","F">> }

\* dict(pairs): the keys in the order of their first occurrence ...
RECURSIVE KeyOrder(_)
KeyOrder(pairs) ==
    IF pairs = <<>> THEN <<>>
    ELSE LET init == KeyOrder(SubSeq(pairs, 1, Len(pairs) - 1))
             k == pairs[Len(pairs)][1]
         IN  IF \E i \in 1..Len(init) : init[i] = k THEN init ELSE Append(init, k)

\* ... and each key's value, the one of its last occurrence
DictOf(pairs) ==
    [k \in {pairs[i][1] : i \in 1..Len(pairs)} |->
        pairs[CHOOSE i \in 1..Len(pairs) :
                /\ pairs[i][1] = k
                /\ \A j \in (i + 1)..Len(pairs) : pairs[j][1] # k][2]]

\* data.get(key, {}).items() of the parsed artifact
ItemsOf(data, key) == IF key \in data.keys THEN data[key] ELSE <<>>

\* [t for t in re.split(r"[\s\-]+", term) if t], scanning from index i
IsTermSep(c) == IsSpace(c) \/ c = "-"

RECURSIVE TermRunEnd(_, _)
TermRunEnd(s, i) ==
    IF i <= Len(s) /\ ~IsTermSep(s[i]) THEN TermRunEnd(s, i + 1) ELSE i

RECURSIVE SplitTermFrom(_, _)
SplitTermFrom(s, i) ==
    IF i > Len(s) THEN <<>>
    ELSE IF IsTermSep(s[i]) THEN SplitTermFrom(s, i + 1)
    ELSE LET e == TermRunEnd(s, i)
         IN  <<SubSeq(s, i, e - 1)>> \o SplitTermFrom(s, e)

SplitTerm(term) == SplitTermFrom(term, 1)

IsPhraseTerm(term) == Contains(term, " ") \/ Contains(term, "-")

\* the loop of lines 41-48 over the first n keys: the phrases list
RECURSIVE PhrasesOf(_, _)
PhrasesOf(keys, n) ==
    IF n = 0 THEN <<>>
    ELSE LET term == keys[n]
             toks == SplitTerm(term)
             rest == PhrasesOf(keys, n - 1)
         IN  IF IsPhraseTerm(term) /\ toks # <<>>
             THEN Append(rest, <<toks, term>>)
             ELSE rest

RECURSIVE MaxLenOf(_, _)
MaxLenOf(phrases, n) ==
    IF n = 0 THEN 1 ELSE Max2(MaxLenOf(phrases, n - 1), Len(phrases[n][1]))

LowerKeys(pairs) == [i \in 1..Len(pairs) |-> <<Lower(pairs[i][1]), pairs[i][2]>>]
UpperCats(pairs) ==
    [i \in 1..Len(pairs) |->
        <<pairs[i][1], [j \in 1..Len(pairs[i][2]) |-> Upper(pairs[i][2][j])]>>]

\* Lexicon(path) for a file whose parsed JSON is data
Lexicon(data) ==
    LET wpairs == LowerKeys(ItemsOf(data, "weights"))
        cpairs == UpperCats(LowerKeys(ItemsOf(data, "categories")))
        keys == KeyOrder(wpairs)
        phrases == PhrasesOf(keys, Len(keys))
    IN  [ weights |-> DictOf(wpairs),
          categories |-> DictOf(cpairs),
          phrases |-> phrases,
          words |-> {keys[i] : i \in {j \in 1..Len(keys) : ~IsPhraseTerm(keys[j])}},
          max_phrase_len |-> MaxLenOf(phrases, Len(phrases)) ]

----------------------------------------------------------------------------
(* lexicon_model.py: Lexicon.match, summarize, has_always_flag *)

\* self.categories.get(term, []) and self.weights.get(term, 1.0)
CategoriesGet(lex, term) ==
    IF term \in DOMAIN lex.categories THEN lex.categories[term] ELSE <<>>
DefaultWeight == 1000
WeightsGet(lex, term) ==
    IF term \in DOMAIN lex.weights THEN lex.weights[term] ELSE DefaultWeight

\* the sliding window stopping, at each start, at the longest window that matches
PhraseHitsGreedy(lex, toks) ==
    LET L == Len(toks)
        At(q, start) ==
            /\ Len(lex.phrases[q][1]) \in 2..Min2(lex.max_phrase_len, L - start)
            /\ SubSeq(toks, start + 1, start + Len(lex.phrases[q][1])) = lex.phrases[q][1]
    IN  IF lex.max_phrase_len > 1 /\ L > 0
        THEN { lex.phrases[p][2] :
                 p \in { q \in 1..Len(lex.phrases) :
                           \E start \in 0..(L - 1) :
                             /\ At(q, start)
                             /\ \A r \in 1..Len(lex.phrases) :
                                   At(r, start) =>
                                     Len(lex.phrases[r][1]) <= Len(lex.phrases[q][1]) } }
        ELSE {}

\* the terms the sliding window of lines 60-70 records
PhraseHits(lex, toks) ==
    LET L == Len(toks)
    IN  IF lex.max_phrase_len > 1 /\ L > 0
        THEN { lex.phrases[p][2] :
                 p \in { q \in 1..Len(lex.phrases) :
                           \E start \in 0..(L - 1) :
                             \E plen \in 2..Min2(lex.max_phrase_len, L - start) :
                               SubSeq(toks, start + 1, start + plen) = lex.phrases[q][1] } }
        ELSE {}

\* the lemmas the loop of lines 72-80 records, given the hits so far
WordHits(lex, toks, hit) ==
    { lemma \in UNION { SimpleLemmas(toks[i]) : i \in 1..Len(toks) } :
        lemma \in lex.words /\ lemma \notin hit }

Match(lex, t) ==
    LET toks == Tokens(t)
        ph == PhraseHits(lex, toks)
        wd == WordHits(lex, toks, ph)
    IN  [ term \in ph \cup wd |->
            [ categories |-> CategoriesGet(lex, term),
              weight |-> WeightsGet(lex, term),
              kind |-> IF term \in ph THEN "phrase" ELSE "word" ] ]

RECURSIVE SumOver(_, _)
SumOver(f, S) ==
    IF S = {} THEN 0
    ELSE LET x == CHOOSE y \in S : TRUE IN f[x] + SumOver(f, S \ {x})

\* how many times category c stands in a hit's category list
Occurrences(cats, c) == Cardinality({i \in 1..Len(cats) : cats[i] = c})

Summarize(hits) ==
    LET cats == UNION { {hits[h].categories[i] : i \in 1..Len(hits[h].categories)} :
                        h \in DOMAIN hits }
    IN  [ c \in cats |->
            SumOver([h \in DOMAIN hits |->
                        Occurrences(hits[h].categories, c) * hits[h].weight],
                    DOMAIN hits) ]

HasAlwaysFlag(hits) ==
    \E h \in DOMAIN hits :
        \E i \in 1..Len(hits[h].categories) : hits[h].categories[i] \in ALWAYS_FLAG_CATS

----------------------------------------------------------------------------
(* model.py: _ramp, in fixed point *)

\* one, in millionths
Micro == 10^6

\* a * b for a, b in 0..Micro, in millionths, rounded; no product exceeds 10^9
MulMicro(a, b) ==
    LET p == (a \div 1000) * b
        q == (a % 1000) * b
    IN  (p \div 1000) + (((p % 1000) * 1000 + q + (Micro \div 2)) \div Micro)

\* exp(-2^i / 10^4) in millionths, for i = 0..17
ExpTable == << 999900, 999800, 999600, 999200, 998401, 996805, 993620, 987282,
               974725, 950089, 902668, 814810, 663916, 440784, 194291, 37749,
               1425, 2 >>

\* math.exp(-y / 10^4) in millionths, y >= 0, by the binary digits of y from digit i on
RECURSIVE ExpNegFrom(_, _)
ExpNegFrom(y, i) ==
    IF y = 0 THEN Micro
    ELSE IF i > Len(ExpTable) THEN 0
    ELSE LET rest == ExpNegFrom(y \div 2, i + 1)
         IN  IF y % 2 = 1 THEN MulMicro(ExpTable[i], rest) ELSE rest

ExpNeg(y) == ExpNegFrom(y, 1)

\* k of _ramp, in tenths
RampK == 6

\* _ramp without its saturation: k * max(0.0, x)
RampLinear(x) == RampK * Max2(0, x) * 100

\* _ramp without its "1.0 -": math.exp(-k * max(0.0, x))
RampDecay(x) == ExpNeg(RampK * Max2(0, x))

\* _ramp(x) in millionths, x in thousandths: 1.0 - math.exp(-k * max(0.0, x))
Ramp(x) == Micro - ExpNeg(RampK * Max2(0, x))

\* round(v, 4): millionths to ten-thousandths, a tie to the even neighbour
Round4(v) ==
    LET q == v \div 100
        r == v % 100
    IN  IF r > 50 \/ (r = 50 /\ q % 2 = 1) THEN q + 1 ELSE q

\* a score written in ten-thousandths, in millionths
U(c) == c * 100

----------------------------------------------------------------------------
(* model.py: THREAT_PATTERNS and STEREO_FRAMES.  A pattern is matched on   *)
(* the lowercased text (re.I); a matcher maps the set P of positions where *)
(* a match may continue to the set of positions where it may end.          *)

AllPos(s) == 1..(Len(s) + 1)

Lit(s, P, lit) ==
    { p + Len(lit) :
        p \in { q \in P : /\ q + Len(lit) - 1 <= Len(s)
                          /\ s[q] = lit[1]
                          /\ SubSeq(s, q, q + Len(lit) - 1) = lit } }

\* the first index >= i of s that holds no white space
RECURSIVE SpaceRunEnd(_, _)
SpaceRunEnd(s, i) ==
    IF i <= Len(s) /\ IsSpace(s[i]) THEN SpaceRunEnd(s, i + 1) ELSE i

\* \s* and \s+: every end the run of white space at p allows
Spaces0(s, P) == UNION { p..SpaceRunEnd(s, p) : p \in P }
Spaces1(s, P) == UNION { (p + 1)..SpaceRunEnd(s, p) : p \in P }

\* \b
AtBoundary(s, p) ==
    (p > 1 /\ IsWordChar(s[p - 1])) # (p <= Len(s) /\ IsWordChar(s[p]))
WordBoundary(s, P) == { p \in P : AtBoundary(s, p) }

\* [a-z]{3,}: every end the run of letters at p allows
Letters3(s, P) == UNION { (p + 3)..LetterRunEnd(s, p) : p \in P }

\* one of several literals
AnyLit(s, P, lits) == UNION { Lit(s, P, l) : l \in lits }

\* the one character U+2019, the right single quotation mark
RightQuote == "U+2019"

ThreatVerbs == { <<"k","i","l","l">>, <<"h","u","r","t">>, <<"b","e","a","t">>,
                 <<"s","t","a","b">>, <<"s","h","o","o","t">> }

\* The patterns take the text s and b, the positions of s at a \b.

\* \b(i\s*('|U+2019)?m\s+going\s+to|i\s*will|i'll)\s+(kill|hurt|beat|stab|shoot)\b
ThreatPattern1(s, b) ==
    LET i == Spaces0(s, Lit(s, b, <<"i">>))
        apos == i \cup AnyLit(s, i, { <<"'">>, <<RightQuote>> })
        im == Lit(s, apos, <<"m">>)
        going == Lit(s, Spaces1(s, im), <<"g","o","i","n","g">>)
        goingTo == Lit(s, Spaces1(s, going), <<"t","o">>)
        will == Lit(s, i, <<"w","i","l","l">>)
        ill == Lit(s, b, <<"i","'","l","l">>)
        verb == AnyLit(s, Spaces1(s, goingTo \cup will \cup ill), ThreatVerbs)
    IN  verb \cap b # {}

\* \bkill\s+(you|u|ya)\b
ThreatPattern2(s, b) ==
    LET kill == Lit(s, b, <<"k","i","l","l">>)
        you == AnyLit(s, Spaces1(s, kill), { <<"y","o","u">>, <<"u">>, <<"y","a">> })
    IN  you \cap b # {}

\* \bshoot\s+up\b
ThreatPattern3(s, b) ==
    LET shoot == Lit(s, b, <<"s","h","o","o","t">>)
    IN  Lit(s, Spaces1(s, shoot), <<"u","p">>) \cap b # {}

\* \b(dox|swat)\s+you\b
ThreatPattern4(s, b) ==
    LET dox == AnyLit(s, b, { <<"d","o","x">>, <<"s","w","a","t">> })
    IN  Lit(s, Spaces1(s, dox), <<"y","o","u">>) \cap b # {}

\* any(rx.search(t) for rx in THREAT_PATTERNS)
ThreatHit(t) ==
    LET s == Lower(t)
        b == WordBoundary(s, AllPos(s))
    IN  \/ ThreatPattern1(s, b)
        \/ ThreatPattern2(s, b)
        \/ ThreatPattern3(s, b)
        \/ ThreatPattern4(s, b)

IDENTITY_WORDS ==
    {
      <<"a","s","i","a","n","s">>,
      <<"a","s","i","a","n">>,
      <<"c","h","i","n","e","s","e">>,
      <<"j","a","p","a","n","e","s","e">>,
      <<"k","o","r","e","a","n">>,
      <<"v","i","e","t">>,
      <<"f","i","l","i","p","i","n","o">>,
      <<"i","n","d","i","a","n">>,
      <<"h","i","n","d","u">>,
      <<"m","u","s","l","i","m">>,
      <<"j","e","w">>,
      <<"j","e","w","i","s","h">>,
      <<"c","h","r","i","s","t","i","a","n">>,
      <<"a","r","a","b">>,
      <<"b","l","a","c","k">>,
      <<"b","l","a","c","k","s">>,
      <<"w","h","i","t","e">>,
      <<"w","h","i","t","e","s">>,
      <<"l","a","t","i","n","o">>,
      <<"l","a","t","i","n","a">>,
      <<"h","i","s","p","a","n","i","c">>,
      <<"m","e","x","i","c","a","n","s">>,
      <<"r","u","s","s","i","a","n","s">>,
      <<"u","k","r","a","i","n","i","a","n","s">>,
      <<"t","u","r","k","s">>,
      <<"k","u","r","d","s">>,
      <<"w","o","m","e","n">>,
      <<"w","o","m","a","n">>,
      <<"g","i","r","l","s">>,
      <<"m","a","l","e","s">>,
      <<"m","e","n">>,
      <<"g","u","y","s">>,
      <<"g","a","y","s">>,
      <<"l","g","b","t">>,
      <<"t","r","a","n","s">>,
      <<"t","r","a","n","s","g","e","n","d","e","r">>,
      <<"q","u","e","e","r">>,
      <<"i","m","m","i","g","r","a","n","t","s">>,
      <<"r","e","f","u","g","e","e","s">>,
      <<"f","o","r","e","i","g","n","e","r","s">> }

\* The matches of a frame \b<head>\s+([a-z]{3,})\s+(<verbs>)\s+[a-z]{3,} as
\* triples <<start, start of group 1, end of group 1>>.
FrameMatches(s, b, head, verbs) ==
    UNION { UNION { { <<p, g, h>> :
                        h \in { e \in Letters3(s, {g}) :
                                  Letters3(s, Spaces1(s, AnyLit(s, Spaces1(s, {e}), verbs))) # {} } } :
                    g \in Spaces1(s, Lit(s, {p}, head)) } :
            p \in b }

\* m.group(1) of rx.search(text): the group of the leftmost match, or None
FrameGroup1(s, b, head, verbs) ==
    LET ms == FrameMatches(s, b, head, verbs)
    IN  IF ms = {} THEN None
        ELSE LET m == CHOOSE x \in ms : \A y \in ms : x[1] <= y[1]
             IN  Some(SubSeq(s, m[2], m[3] - 1))

\* \ball\s+([a-z]{3,})\s+(are|r)\s+[a-z]{3,}
StereoFrame1(s, b) == FrameGroup1(s, b, <<"a","l","l">>, { <<"a","r","e">>, <<"r">> })
\* \bevery\s+([a-z]{3,})\s+(is|are)\s+[a-z]{3,}
StereoFrame2(s, b) ==
    FrameGroup1(s, b, <<"e","v","e","r","y">>, { <<"i","s">>, <<"a","r","e">> })

\* _stereo_hit
StereoHit(t) ==
    LET s == Lower(t)
        b == WordBoundary(s, AllPos(s))
    IN  \E g \in {StereoFrame1(s, b), StereoFrame2(s, b)} :
            ~IsNone(g) /\ Lower(Val(g)) \in IDENTITY_WORDS

----------------------------------------------------------------------------
(* model.py: score *)

LABELS == { "toxicity", "severe_toxicity", "insult", "threat", "obscene",
            "identity_attack" }

\* the scores of lines 64-90, in ten-thousandths
ThreatScore == 9500
StereoScore == 8000
BaseCap == 8500
AlwaysFlagToxicity == 9800
AlwaysFlagIdentity == 9000
ThreatGate == 9000
ThreatToxicity == 9000
SevereToxicityGate == 9000
SevereObsceneGate == 6000
SevereThreatGate == 8000
SevereIdentityGate == 8000
SevereScore == 8500

OBSCENE_CATS == << <<"Q","A","S">>, <<"S","V","P">>, <<"R","E">>, <<"D","M","C">> >>
INSULT_CATS == << <<"I","S">>, <<"O","M">>, <<"P","R">> >>
IDENTITY_CATS == << <<"A","S","M">>, <<"A","S","F">>, <<"C","D","S">>, <<"R","C","I">>,
                    <<"O","R">>, <<"A","N">>, <<"I","S">> >>
IDENTITY_FLAG_CATS == { <<"A","S","M">>, <<"A","S","F">>, <<"C","D","S">> }

\* sum(per_cat.get(c, 0.0) for c in group)
RECURSIVE GroupSum(_, _)
GroupSum(per_cat, group) ==
    IF group = <<>> THEN 0
    ELSE (IF Head(group) \in DOMAIN per_cat THEN per_cat[Head(group)] ELSE 0)
         + GroupSum(per_cat, Tail(group))

\* sum(per_cat.values())
TotalWeight(per_cat) == SumOver(per_cat, DOMAIN per_cat)

\* the always-flag test made on the summed weight instead of the key
AlwaysFlaggedByWeight(per_cat) ==
    \E c \in DOMAIN per_cat : c \in ALWAYS_FLAG_CATS /\ per_cat[c] > 0

\* any(c in ALWAYS_FLAG_CATS for c in per_cat.keys())
AlwaysFlagged(per_cat) == \E c \in DOMAIN per_cat : c \in ALWAYS_FLAG_CATS

\* toxicity after step 3: min(0.85, base) when there are hits
BaseToxicity(any_hits, per_cat) ==
    IF any_hits THEN Max2(0, Min2(U(BaseCap), Ramp(TotalWeight(per_cat)))) ELSE 0

\* toxicity after steps 4 and 5
FinalToxicity(base, per_cat, threat) ==
    LET t4 == IF AlwaysFlagged(per_cat) THEN Max2(base, U(AlwaysFlagToxicity)) ELSE base
    IN  IF threat >= U(ThreatGate) THEN Max2(t4, U(ThreatToxicity)) ELSE t4

\* line 90 with "or" for its "and"
SevereAny(toxicity, obscene, threat, identity) ==
    IF \/ toxicity >= U(SevereToxicityGate)
       \/ obscene >= U(SevereObsceneGate)
       \/ threat >= U(SevereThreatGate)
       \/ identity >= U(SevereIdentityGate)
    THEN U(SevereScore) ELSE 0

\* line 90
Severe(toxicity, obscene, threat, identity) ==
    IF /\ toxicity >= U(SevereToxicityGate)
       /\ \/ obscene >= U(SevereObsceneGate)
          \/ threat >= U(SevereThreatGate)
          \/ identity >= U(SevereIdentityGate)
    THEN U(SevereScore) ELSE 0

\* threat summed over the patterns that match, capped at 1
ThreatCumulative(t) ==
    LET s == Lower(t)
        b == WordBoundary(s, AllPos(s))
        n == Cardinality({ k \in 1..4 :
                \/ k = 1 /\ ThreatPattern1(s, b)
                \/ k = 2 /\ ThreatPattern2(s, b)
                \/ k = 3 /\ ThreatPattern3(s, b)
                \/ k = 4 /\ ThreatPattern4(s, b) })
    IN  Min2(Micro, n * U(ThreatScore))

\* threat with its test inverted
ThreatInverted(t) == IF ThreatHit(t) THEN 0 ELSE U(ThreatScore)

\* threat of lines 62-64
Threat(t) == IF ThreatHit(t) THEN U(ThreatScore) ELSE 0

\* score's local variables when line 90 has run, in millionths
ScoreLocals(lex, txt) ==
    LET t == IF IsNone(txt) THEN <<>> ELSE Val(txt)
        hits == Match(lex, Some(t))
        per_cat == Summarize(hits)
        any_hits == DOMAIN hits # {}
        threat == Threat(t)
        identity2 == IF StereoHit(t) THEN U(StereoScore) ELSE 0
        toxicity3 == BaseToxicity(any_hits, per_cat)
        obscene == IF any_hits THEN Max2(0, Ramp(GroupSum(per_cat, OBSCENE_CATS))) ELSE 0
        insult == IF any_hits THEN Max2(0, Ramp(GroupSum(per_cat, INSULT_CATS))) ELSE 0
        identity3 == IF any_hits
                     THEN Max2(identity2, Ramp(GroupSum(per_cat, IDENTITY_CATS)))
                     ELSE identity2
        identity == IF AlwaysFlagged(per_cat) /\ \E c \in DOMAIN per_cat : c \in IDENTITY_FLAG_CATS
                    THEN Max2(identity3, U(AlwaysFlagIdentity))
                    ELSE identity3
        toxicity == FinalToxicity(toxicity3, per_cat, threat)
    IN  [ toxicity |-> toxicity,
          severe |-> Severe(toxicity, obscene, threat, identity),
          insult |-> insult,
          threat |-> threat,
          obscene |-> obscene,
          identity |-> identity ]

\* the dict of lines 92-99, in ten-thousandths
Rounded(loc) ==
    [ l \in LABELS |->
        CASE l = "toxicity" -> Round4(loc.toxicity)
          [] l = "severe_toxicity" -> Round4(loc.severe)
          [] l = "insult" -> Round4(loc.insult)
          [] l = "threat" -> Round4(loc.threat)
          [] l = "obscene" -> Round4(loc.obscene)
          [] l = "identity_attack" -> Round4(loc.identity) ]

ScoreOf(lex, txt) == Rounded(ScoreLocals(lex, txt))

----------------------------------------------------------------------------
(* The inputs: lexicon artifacts and message texts *)

\* An artifact is the parsed JSON of the file: the top-level keys present,
\* and the items of "weights" and of "categories" in file order.

\* as build_model writes it for a small lemma table
ArtifactBuilt ==
    [ keys |-> {"kind", "version", "weights", "categories"},
      weights |->
        << <<<<"s","c","u","m">>, 2500>>,
           <<<<"c","r","a","p">>, 1500>>,
           <<<<"d","a","m","n">>, 1500>>,
           <<<<"i","d","i","o","t">>, 1000>>,
           <<<<"b","a","d"," ","e","g","g">>, 1500>>,
           <<<<"d","i","c","k">>, 2000>> >>,
      categories |->
        << <<<<"s","c","u","m">>, <<<<"P","S">>>>>>,
           <<<<"c","r","a","p">>, <<<<"Q","A","S">>>>>>,
           <<<<"d","a","m","n">>, <<<<"Q","A","S">>, <<"S","V","P">>>>>>,
           <<<<"i","d","i","o","t">>, <<<<"I","S">>>>>>,
           <<<<"b","a","d"," ","e","g","g">>, <<<<"O","M">>>>>>,
           <<<<"d","i","c","k">>, <<<<"A","S","M">>>>>> >> ]

\* written by hand: mixed-case keys, lower-case codes, a weight off the
\* compiler's grid, a zero and a negative weight, a term without categories
ArtifactHand ==
    [ keys |-> {"weights", "categories"},
      weights |->
        << <<<<"S","c","u","m">>, 1527>>,
           <<<<"c","r","a","p">>, -2000>>,
           <<<<"m","e","h">>, 0>>,
           <<<<"i","d","i","o","t">>, 1000>>,
           <<<<"d","a","m","n">>, 1500>> >>,
      categories |->
        << <<<<"S","c","u","m">>, <<<<"p","s">>, <<"q","a","s">>>>>>,
           <<<<"c","r","a","p">>, <<<<"Q","A","S">>>>>>,
           <<<<"m","e","h">>, <<<<"P","S">>>>>>,
           <<<<"d","a","m","n">>, <<<<"S","V","P">>>>>>,
           <<<<"n","o","p","e">>, <<<<"I","S">>>>>> >> ]

ArtifactNoWeights ==
    [ keys |-> {"categories"},
      weights |-> <<>>,
      categories |-> << <<<<"s","c","u","m">>, <<<<"P","S">>>>>> >> ]

ArtifactNoCategories ==
    [ keys |-> {"weights"},
      weights |-> << <<<<"s","c","u","m">>, 2500>>, <<<<"c","r","a","p">>, 1500>> >>,
      categories |-> <<>> ]

Artifacts == { ArtifactBuilt, ArtifactHand, ArtifactNoWeights, ArtifactNoCategories }

\* the pieces a message text is made of
Chunks ==
    { <<"I"," ","w","i","l","l"," ","k","i","l","l">>,
      <<"k","i","l","l">>,
      <<" ","y","o","u">>,
      <<" ">>,
      <<"s">>,
      <<"s","c","u","m">>,
      <<" ","d","a","m","n">>,
      <<"a","l","l"," ","m","e","n"," ","a","r","e"," ","b","a","d">>,
      <<"a","l","l"," ","c","a","t","s"," ","a","r","e"," ","b","a","d"," ">> }

\* how many pieces a text has at most
MaxChunks == 2
\* how many terms are appended to a text at most
MaxMore == 1

Texts ==
    {None} \cup
    { Some(Flatten(cs)) : cs \in UNION { [1..n -> Chunks] : n \in 0..MaxChunks } }

----------------------------------------------------------------------------
(* The scorer as a state machine: the import of model.py, then score calls *)

Init ==
    /\ artifact \in {None} \cup { Some(a) : a \in Artifacts }
    /\ text \in Texts
    /\ LEX = None
    /\ phase = "import"
    /\ error = None
    /\ lastHits = None
    /\ lastPerCat = None
    /\ raw = None
    /\ scores = None
    /\ prev = None
    /\ added = None
    /\ nMore = 0
    /\ policies = <<>>
    /\ decision = None
    /\ table = None
    /\ built = None

\* model.py lines 11-16: LEX = Lexicon(p) for the file found, or FileNotFoundError
ImportModel ==
    /\ phase = "import"
    /\ IF IsNone(artifact)
       THEN /\ LEX' = None
            /\ phase' = "failed"
            /\ error' = Some("FileNotFoundError")
       ELSE /\ LEX' = Some(Lexicon(Val(artifact)))
            /\ phase' = "ready"
            /\ error' = None
    /\ UNCHANGED <<artifact, text, lastHits, lastPerCat, raw, scores, prev, added, nMore,
                   policies, decision, table, built>>

\* score(text)
Score ==
    /\ phase = "ready"
    /\ IsNone(scores)
    /\ lastHits' = Some(Match(Val(LEX), text))
    /\ lastPerCat' = Some(Summarize(Val(lastHits')))
    /\ raw' = Some(ScoreLocals(Val(LEX), text))
    /\ scores' = Some(Rounded(Val(raw')))
    /\ UNCHANGED <<artifact, LEX, phase, error, text, prev, added, nMore,
                   policies, decision, table, built>>

\* score(text + " " + w) for a term w of the lexicon that matches itself
ScoreMore(w) ==
    /\ phase = "ready"
    /\ ~IsNone(scores)
    /\ nMore < MaxMore
    /\ w \in DOMAIN Match(Val(LEX), Some(w))
    /\ text' = Some((IF IsNone(text) THEN <<>> ELSE Val(text)) \o <<" ">> \o w)
    /\ prev' = Some(Val(scores)["toxicity"])
    /\ added' = Some(w)
    /\ nMore' = nMore + 1
    /\ lastHits' = Some(Match(Val(LEX), text'))
    /\ lastPerCat' = Some(Summarize(Val(lastHits')))
    /\ raw' = Some(ScoreLocals(Val(LEX), text'))
    /\ scores' = Some(Rounded(Val(raw')))
    /\ UNCHANGED <<artifact, LEX, phase, error, policies, decision, table, built>>

Next ==
    \/ ImportModel
    \/ Score
    \/ \E w \in (IF IsNone(LEX) THEN {} ELSE DOMAIN Val(LEX).weights) : ScoreMore(w)

Spec == Init /\ [][Next]_vars

----------------------------------------------------------------------------
(* storage.py: the policies table; policy.py: decide_action *)

\* DEFAULTS, in ten-thousandths, and the default of DEFAULTS.get(k, 0.5)
DEFAULTS ==
    [ l \in LABELS |->
        CASE l = "toxicity" -> 5000
          [] l = "severe_toxicity" -> 4000
          [] l = "insult" -> 4500
          [] l = "threat" -> 3500
          [] l = "obscene" -> 4500
          [] l = "identity_attack" -> 3500 ]
DefaultsFallback == 5000

DefaultsGet(k) == IF k \in DOMAIN DEFAULTS THEN DEFAULTS[k] ELSE DefaultsFallback

\* get_threshold: the row's threshold, or None when there is no row
GetThreshold(pol, gid, cid, label) ==
    IF <<gid, cid, label>> \in DOMAIN pol THEN Some(pol[<<gid, cid, label>>]) ELSE None

\* INSERT ... ON CONFLICT DO UPDATE of upsert_policy
Upserted(pol, gid, cid, label, thr) ==
    [ key \in DOMAIN pol \cup {<<gid, cid, label>>} |->
        IF key = <<gid, cid, label>> THEN thr ELSE pol[key] ]

\* get_threshold(...) or DEFAULTS.get(k, 0.5): None and 0.0 are both falsy
ThresholdOr(found, k) ==
    IF ~IsNone(found) /\ Val(found) # 0 THEN Val(found) ELSE DefaultsGet(k)

\* flag = v > thr
OverStrict(v, thr) == v > thr

\* flag = v >= thr
Over(v, thr) == v >= thr

\* decide_action: the pair (over, details)
DecideAction(pol, gid, cid, sc) ==
    LET thr(k) == ThresholdOr(GetThreshold(pol, gid, cid, k), k)
    IN  [ over |-> \E k \in DOMAIN sc : Over(sc[k], thr(k)),
          details |-> [ k \in DOMAIN sc |->
                          [ score |-> sc[k],
                            threshold |-> thr(k),
                            over |-> Over(sc[k], thr(k)) ] ] ]

\* The inputs of the policy evaluator
Guilds == {"g1"}
Channels == {"c1", "c2"}
\* the channels whose thresholds are overridden
PolicyChannels == {"c1"}
Thresholds == {0, 3000, 8000}

\* every label 0 but toxicity
OnlyToxicity(v) == [ l \in LABELS |-> IF l = "toxicity" THEN v ELSE 0 ]

ScoreDicts ==
    { OnlyToxicity(5000), OnlyToxicity(4900), OnlyToxicity(100), OnlyToxicity(0),
      [ l \in LABELS |-> 3500 ],
      [ l \in {"toxicity"} |-> 9000 ],
      [ l \in LABELS \cup {"spam"} |-> IF l = "spam" THEN 9000 ELSE 0 ] }

\* how many rows the policies table holds at most
MaxPolicies == 2

PolicyInit ==
    /\ artifact = None
    /\ text = None
    /\ LEX = None
    /\ phase = "import"
    /\ error = None
    /\ lastHits = None
    /\ lastPerCat = None
    /\ raw = None
    /\ scores = None
    /\ prev = None
    /\ added = None
    /\ nMore = 0
    /\ policies = <<>>
    /\ decision = None
    /\ table = None
    /\ built = None

\* upsert_policy(gid, cid, label, thr); a decision taken before it is forgotten
UpsertPolicy(gid, cid, label, thr) ==
    /\ \/ <<gid, cid, label>> \in DOMAIN policies
       \/ Cardinality(DOMAIN policies) < MaxPolicies
    /\ policies' = Upserted(policies, gid, cid, label, thr)
    /\ decision' = None
    /\ UNCHANGED <<artifact, LEX, phase, error, text, lastHits, lastPerCat, raw, scores, prev,
                   added, nMore, table, built>>

\* decide_action(gid, cid, sc)
Decide(gid, cid, sc) ==
    /\ LET d == DecideAction(policies, gid, cid, sc)
       IN  decision' = Some([ guild |-> gid, channel |-> cid, scores |-> sc,
                              over |-> d.over, details |-> d.details ])
    /\ UNCHANGED <<artifact, LEX, phase, error, text, lastHits, lastPerCat, raw, scores, prev,
                   added, nMore, policies, table, built>>

PolicyNext ==
    \/ \E gid \in Guilds, cid \in PolicyChannels, label \in LABELS, thr \in Thresholds :
          UpsertPolicy(gid, cid, label, thr)
    \/ \E gid \in Guilds, cid \in Channels, sc \in ScoreDicts : Decide(gid, cid, sc)

PolicySpec == PolicyInit /\ [][PolicyNext]_vars

----------------------------------------------------------------------------
(* training/build_hurtlex_model.py: read_lemma_file, build_model, main *)

\* A lemma file is the sequence of rows csv.reader yields, each a sequence of
\* cells, each a string.

KNOWN == { <<"P","S">>, <<"R","C","I">>, <<"P","A">>, <<"D","D","F">>, <<"D","D","P">>,
           <<"D","M","C">>, <<"I","S">>, <<"O","R">>, <<"A","N">>, <<"A","S","M">>,
           <<"A","S","F">>, <<"P","R">>, <<"O","M">>, <<"Q","A","S">>, <<"C","D","S">>,
           <<"R","E">>, <<"S","V","P">> }

\* str.strip()
RECURSIVE LStrip(_)
LStrip(s) == IF s # <<>> /\ IsSpace(Head(s)) THEN LStrip(Tail(s)) ELSE s
RECURSIVE RStrip(_)
RStrip(s) == IF s # <<>> /\ IsSpace(s[Len(s)]) THEN RStrip(DropLast(s, 1)) ELSE s
Strip(s) == RStrip(LStrip(s))

\* the lemma as the cell gives it, upper case kept
LemmaKeepCase(cell) == Strip(cell)

\* cell.strip().lower()
LemmaOf(cell) == Lower(Strip(cell))

\* the column names of lines 36 and 43-44
HeaderNames == { <<"l","e","m","m","a">>, <<"l","e","x","e","m","e">>,
                 <<"c","a","t","e","g","o","r","y">>,
                 <<"c","a","t","e","g","o","r","i","e","s">>,
                 <<"p","o","s">>, <<"s","t","e","r","e","o","t","y","p","e">>,
                 <<"i","d">> }
LemmaNames == { <<"l","e","m","m","a">>, <<"l","e","x","e","m","e">> }
CatsNames == { <<"c","a","t","e","g","o","r","y">>,
               <<"c","a","t","e","g","o","r","i","e","s">> }

\* the last index of header whose name is in names, as an optional value
IndexOfName(header, names) ==
    LET I == { i \in 1..Len(header) : header[i] \in names }
    IN  IF I = {} THEN None ELSE Some(CHOOSE i \in I : \A j \in I : j <= i)

\* [t for t in re.split(r"[\s,;/]+", cell.strip())], the empty pieces left out:
\* upper-cased, an empty piece is not in KNOWN
IsCatSep(c) == IsSpace(c) \/ c \in {",", ";", "/"}

RECURSIVE CatRunEnd(_, _)
CatRunEnd(s, i) == IF i <= Len(s) /\ ~IsCatSep(s[i]) THEN CatRunEnd(s, i + 1) ELSE i

RECURSIVE SplitCatsFrom(_, _)
SplitCatsFrom(s, i) ==
    IF i > Len(s) THEN {}
    ELSE IF IsCatSep(s[i]) THEN SplitCatsFrom(s, i + 1)
    ELSE LET e == CatRunEnd(s, i)
         IN  {SubSeq(s, i, e - 1)} \cup SplitCatsFrom(s, e)

\* the known codes of the categories cell (lines 59-61)
ColumnCats(cell) == { Upper(tok) : tok \in SplitCatsFrom(cell, 1) } \cap KNOWN

\* " ".join(cells)
RECURSIVE JoinCells(_)
JoinCells(r) ==
    IF r = <<>> THEN <<>>
    ELSE IF Len(r) = 1 THEN r[1]
    ELSE r[1] \o <<" ">> \o JoinCells(Tail(r))

\* UPPER_CODE.finditer(line): the words of two or three upper-case letters
RECURSIVE WordRunEnd(_, _)
WordRunEnd(s, i) == IF i <= Len(s) /\ IsWordChar(s[i]) THEN WordRunEnd(s, i + 1) ELSE i

RECURSIVE UpperCodesFrom(_, _)
UpperCodesFrom(s, i) ==
    IF i > Len(s) THEN {}
    ELSE IF ~IsWordChar(s[i]) THEN UpperCodesFrom(s, i + 1)
    ELSE LET e == WordRunEnd(s, i)
             w == SubSeq(s, i, e - 1)
         IN  (IF Len(w) \in {2, 3} /\ \A j \in 1..Len(w) : w[j] \in UpperLetters
              THEN {w} ELSE {})
             \cup UpperCodesFrom(s, e)

\* the known codes found anywhere in the row (lines 63-65)
LineCats(r) == UpperCodesFrom(JoinCells(r), 1) \cap KNOWN


\* rows = [r for r in rdr if any((c or "").strip() for c in r)]
RECURSIVE NonBlankRows(_)
NonBlankRows(rows) ==
    IF rows = <<>> THEN <<>>
    ELSE (IF \E i \in 1..Len(Head(rows)) : Strip(Head(rows)[i]) # <<>>
          THEN <<Head(rows)>> ELSE <<>>)
         \o NonBlankRows(Tail(rows))

HasLetter(cell) == \E i \in 1..Len(cell) : IsLetter(cell[i])

\* the lemma of a row (lines 49-54), as an optional value: None is "continue"
RowLemma(r, lemma_idx) ==
    IF ~IsNone(lemma_idx) /\ Val(lemma_idx) <= Len(r) /\ Strip(r[Val(lemma_idx)]) # <<>>
    THEN Some(LemmaOf(r[Val(lemma_idx)]))
    ELSE LET I == { i \in 1..Len(r) : HasLetter(r[i]) }
         IN  IF I = {} THEN None
             ELSE Some(LemmaOf(r[CHOOSE i \in I : \A j \in I : i <= j]))

\* the categories of a row (lines 57-65)
RowCats(r, cats_idx) ==
    LET col == IF ~IsNone(cats_idx) /\ Val(cats_idx) <= Len(r)
               THEN ColumnCats(r[Val(cats_idx)]) ELSE {}
    IN  IF col # {} THEN col ELSE LineCats(r)

\* terms.setdefault(lemma, set()).update(cats), terms a sequence of <<lemma, set>>
SetDefaultUpdate(terms, lemma, cats) ==
    IF \E i \in 1..Len(terms) : terms[i][1] = lemma
    THEN [ i \in 1..Len(terms) |->
             IF terms[i][1] = lemma THEN <<lemma, terms[i][2] \cup cats>> ELSE terms[i] ]
    ELSE Append(terms, <<lemma, cats>>)

\* the loop of lines 47-68 over the first n rows
RECURSIVE TermsOf(_, _, _, _)
TermsOf(rows, n, lemma_idx, cats_idx) ==
    IF n = 0 THEN <<>>
    ELSE LET terms == TermsOf(rows, n - 1, lemma_idx, cats_idx)
             lemma == RowLemma(rows[n], lemma_idx)
             cats == RowCats(rows[n], cats_idx)
         IN  IF ~IsNone(lemma) /\ Val(lemma) # <<>> /\ cats # {}
             THEN SetDefaultUpdate(terms, Val(lemma), cats)
             ELSE terms

\* the order of str: by code point, a proper prefix first
CharRank(c) == CHOOSE i \in DOMAIN UpperSeq : UpperSeq[i] = c

RECURSIVE StrLess(_, _)
StrLess(a, b) ==
    IF b = <<>> THEN FALSE
    ELSE IF a = <<>> THEN TRUE
    ELSE IF Head(a) = Head(b) THEN StrLess(Tail(a), Tail(b))
    ELSE CharRank(Head(a)) < CharRank(Head(b))

\* sorted(v) of a set of category codes
RECURSIVE Sorted(_)
Sorted(S) ==
    IF S = {} THEN <<>>
    ELSE LET m == CHOOSE x \in S : \A y \in S \ {x} : StrLess(x, y)
         IN  <<m>> \o Sorted(S \ {m})

\* read_lemma_file: the dict term -> sorted categories, as its items in order
ReadLemmaFile(file) ==
    LET rows == NonBlankRows(file)
        header == IF rows = <<>> THEN <<>>
                  ELSE [ i \in 1..Len(rows[1]) |-> LemmaOf(rows[1][i]) ]
        has_header == \E i \in 1..Len(header) : header[i] \in HeaderNames
        data == IF has_header THEN Tail(rows) ELSE rows
        terms == TermsOf(data, Len(data), IndexOfName(header, LemmaNames),
                         IndexOfName(header, CatsNames))
    IN  [ i \in 1..Len(terms) |-> <<terms[i][1], Sorted(terms[i][2])>> ]

\* the weights of lines 75-79, in thousandths
BaseWeight == 1000
BonusObscene == 500
BonusAnatomy == 1000
BonusSlur == 1500
BonusPhrase == 500

ObsceneBonusCats == { <<"D","M","C">>, <<"Q","A","S">>, <<"S","V","P">>, <<"R","E">> }
AnatomyBonusCats == { <<"A","S","M">>, <<"A","S","F">> }
SlurBonusCats == { <<"P","S">>, <<"D","D","P">>, <<"D","D","F">>, <<"C","D","S">> }

\* how many categories of the list are in the group
CountIn(cats, group) == Cardinality({ i \in 1..Len(cats) : cats[i] \in group })

\* the weight with each bonus added once per category of its group
TermWeightPerCategory(term, cats) ==
    BaseWeight
    + CountIn(cats, ObsceneBonusCats) * BonusObscene
    + CountIn(cats, AnatomyBonusCats) * BonusAnatomy
    + CountIn(cats, SlurBonusCats) * BonusSlur
    + (IF Contains(term, " ") \/ Contains(term, "-") THEN BonusPhrase ELSE 0)

\* the weight build_model gives a term (lines 75-79)
TermWeight(term, cats) ==
    BaseWeight
    + (IF CountIn(cats, ObsceneBonusCats) > 0 THEN BonusObscene ELSE 0)
    + (IF CountIn(cats, AnatomyBonusCats) > 0 THEN BonusAnatomy ELSE 0)
    + (IF CountIn(cats, SlurBonusCats) > 0 THEN BonusSlur ELSE 0)
    + (IF Contains(term, " ") \/ Contains(term, "-") THEN BonusPhrase ELSE 0)

\* build_model: the dict it returns, weights and categories as items in order
BuildModel(term2cats) ==
    [ kind |-> "hurtlex-lexicon",
      version |-> 3,
      weights |-> [ i \in 1..Len(term2cats) |->
                      <<term2cats[i][1], TermWeight(term2cats[i][1], term2cats[i][2])>> ],
      categories |-> term2cats ]

\* json.dump(obj, f) read back by json.load(f): the top-level keys, and the
\* items of "weights" and "categories" in the order written
JsonFile(obj) ==
    [ keys |-> DOMAIN obj,
      weights |-> IF "weights" \in DOMAIN obj THEN obj.weights ELSE <<>>,
      categories |-> IF "categories" \in DOMAIN obj THEN obj.categories ELSE <<>> ]

\* main refuses a table of fewer terms unless --force is given (line 95)
MinTerms == 100


----------------------------------------------------------------------------
(* The inputs of the compiler and of the matcher *)

\* a lemma file with a header row: lemma and category columns
FileHeader ==
    << << <<"l","e","m","m","a">>, <<"c","a","t","e","g","o","r","y">> >>,
       << <<"S","c","u","m">>, <<"p","s">> >>,
       << <<"s","c","u","m"," ">>, <<"Q","A","S">> >>,
       << <<"b","a","d"," ","e","g","g">>, <<"O","M">> >>,
       << <<"d","a","m","n">>, <<"q","a","s","/","s","v","p">> >>,
       << <<"k","i","l","l">>, <<"z","z">> >>,
       << <<"d","i","c","k">>, <<"A","S","M",","," ","A","S","F">> >>,
       << <<"-","e","g","g">>, <<"P","S",";","D","D","P">> >>,
       << <<>>, <<>> >>,
       << <<"b","a","d"," ","e","g","g"," ","s","a","l","a","d">>, <<"O","M">> >>,
       << <<"e","g","g"," ","s","a","l","a","d">>, <<"I","S">> >>,
       << <<"b","a","d","-","e","g","g">>, <<"P","R">> >>,
       << <<"-">>, <<"A","N">> >>,
       << <<"k","i","l","l">>, <<"P","R">> >> >>

\* a lemma file without a header row
FileNoHeader ==
    << << <<"1","2">>, <<"t","w","i","t">>, <<"I","S">> >>,
       << <<" ">>, <<>> >>,
       << <<"7">>, <<"K","i","l","l">>, <<"P","R",","," ","o","m">> >>,
       << <<"Q","A","S">>, <<"c","r","a","p">> >>,
       << <<"9">>, <<"k","i","l","l">>, <<"R","E">> >>,
       << <<"1","3">>, <<"?","?">>, <<"P","S">> >> >>

\* a lemma file with an id column and rows that are short
FileShort ==
    << << <<"i","d">>, <<"c","a","t","e","g","o","r","y">>, <<"l","e","m","m","a">> >>,
       << <<"1">>, <<"C","D","S">>, <<"w","o","p">> >>,
       << <<"2">>, <<"P","A">> >>,
       << <<"3">>, <<"n","o","p","e">>, <<"P","S">> >>,
       << <<"4">>, <<>>, <<"R","C","I">> >>,
       << <<"5">>, <<"O","R"," ","A","N">>, <<"w","i","s","e","-","g","u","y">> >>,
       << <<"6">>, <<"q","a","s",",","A","S","M",";","P","S","/","r","e">>, <<"b","i","g","-","m","o","u","t","h">> >> >>

LemmaFiles == { FileHeader, FileNoHeader, FileShort }

\* written by hand: terms that begin with or are a hyphen, a category listed
\* twice, a term with an empty category list
ArtifactEdge ==
    [ keys |-> {"weights", "categories"},
      weights |->
        << <<<<"-","f","o","o">>, 1500>>,
           <<<<"-">>, 1000>>,
           <<<<"f","o","o","-","b","a","r">>, 2000>>,
           <<<<"k","i","l","l">>, 1000>>,
           <<<<"s","c","u","m">>, 2500>>,
           <<<<"A","s">>, 1000>>,
           <<<<"a">>, 1000>>,
           <<<<"b","a","d"," ","e","g","g">>, 1500>> >>,
      categories |->
        << <<<<"-","f","o","o">>, <<<<"I","S">>>>>>,
           <<<<"-">>, <<<<"I","S">>>>>>,
           <<<<"f","o","o","-","b","a","r">>, <<<<"O","M">>, <<"I","S">>>>>>,
           <<<<"k","i","l","l">>, <<>>>>,
           <<<<"s","c","u","m">>, <<<<"P","S">>, <<"p","s">>>>>>,
           <<<<"a","s">>, <<<<"P","R">>>>>>,
           <<<<"b","a","d"," ","e","g","g">>, <<<<"Q","A","S">>, <<"S","V","P">>, <<"q","a","s">>>>>> >> ]

\* the artifacts a models directory holds before the compiler runs
LexArtifacts == { ArtifactHand, ArtifactNoCategories, ArtifactEdge }

\* the pieces a text handed to match is made of
LexChunks ==
    { <<"k","i","l","l">>,
      <<"s">>,
      <<"e","s">>,
      <<"e","d">>,
      <<"i","n","g">>,
      <<"e","r">>,
      <<"e","s","t">>,
      <<" ">>,
      <<"a","s">>,
      <<"a","'","s">>,
      <<"b","a","d"," ","e","g","g">>,
      <<" ","s","a","l","a","d">> }

LexTexts ==
    {None} \cup
    { Some(Flatten(cs)) : cs \in UNION { [1..n -> LexChunks] : n \in 0..MaxChunks } }


----------------------------------------------------------------------------
(* The lexicon pipeline as a state machine: the compiler writes the artifact, *)
(* the import of model.py loads it, match and summarize are called on it      *)

LexInit ==
    /\ table \in {None} \cup { Some(f) : f \in LemmaFiles }
    /\ artifact \in {None} \cup { Some(a) : a \in LexArtifacts }
    /\ built = None
    /\ LEX = None
    /\ phase = "import"
    /\ error = None
    /\ text = None
    /\ lastHits = None
    /\ lastPerCat = None
    /\ raw = None
    /\ scores = None
    /\ prev = None
    /\ added = None
    /\ nMore = 0
    /\ policies = <<>>
    /\ decision = None

\* main of build_hurtlex_model.py, with or without --force
Compile(force) ==
    /\ phase = "import"
    /\ ~IsNone(table)
    /\ IsNone(built)
    /\ IsNone(error)
    /\ LET term2cats == ReadLemmaFile(Val(table))
       IN  IF Len(term2cats) < MinTerms /\ ~force
           THEN /\ error' = Some("SystemExit")
                /\ UNCHANGED <<built, artifact>>
           ELSE /\ built' = Some(BuildModel(term2cats))
                /\ artifact' = Some(JsonFile(Val(built')))
                /\ error' = None
    /\ UNCHANGED <<LEX, phase, text, lastHits, lastPerCat, raw, scores, prev, added,
                   nMore, policies, decision, table>>

\* hits = LEX.match(t); per_cat = LEX.summarize(hits)
MatchText(t) ==
    /\ phase = "ready"
    /\ IsNone(lastHits)
    /\ text' = t
    /\ lastHits' = Some(Match(Val(LEX), t))
    /\ lastPerCat' = Some(Summarize(Val(lastHits')))
    /\ UNCHANGED <<artifact, LEX, phase, error, raw, scores, prev, added, nMore,
                   policies, decision, table, built>>

\* hits = LEX.match(term) for a term of the lexicon, then summarize
MatchTerm(term) ==
    /\ phase = "ready"
    /\ IsNone(lastHits)
    /\ term \in DOMAIN Val(LEX).weights
    /\ text' = Some(term)
    /\ lastHits' = Some(Match(Val(LEX), text'))
    /\ lastPerCat' = Some(Summarize(Val(lastHits')))
    /\ UNCHANGED <<artifact, LEX, phase, error, raw, scores, prev, added, nMore,
                   policies, decision, table, built>>

LexNext ==
    \/ \E force \in BOOLEAN : Compile(force)
    \/ ImportModel
    \/ \E t \in LexTexts : MatchText(t)
    \/ \E term \in (IF IsNone(LEX) THEN {} ELSE DOMAIN Val(LEX).weights) : MatchTerm(term)

LexSpec == LexInit /\ [][LexNext]_vars

----------------------------------------------------------------------------
(* Properties of score, checked under Spec *)

\* one, in ten-thousandths
One4 == 10^4

SixLabels == { "toxicity", "severe_toxicity", "insult", "threat", "obscene",
               "identity_attack" }

\* the hits match returned for the text that was scored
HitsOfText == Val(lastHits)

\* the text that was scored, as a string
TextString == IF IsNone(text) THEN <<>> ELSE Val(text)

AllZero(sc) == \A l \in DOMAIN sc : sc[l] = 0

\* C1: for every lexicon and every text, score returns exactly the six labels
\* toxicity, severe_toxicity, insult, threat, obscene and identity_attack, each
\* with a value in the closed interval [0,1].
C1_SixLabelsInUnitInterval ==
    ~IsNone(scores) =>
        /\ DOMAIN Val(scores) = SixLabels
        /\ \A l \in DOMAIN Val(scores) : 0 <= Val(scores)[l] /\ Val(scores)[l] <= One4

\* a text was scored that hits a term of negative weight and a term that saturates
\* toxicity while another label stays strictly between 0 and 1
C1_Witness ==
    /\ ~IsNone(scores)
    /\ \E h \in DOMAIN HitsOfText : HitsOfText[h].weight < 0
    /\ Val(scores)["toxicity"] = 9800
    /\ \E l \in SixLabels : 0 < Val(scores)[l] /\ Val(scores)[l] < One4

C2_FlagCats == { <<"P","S">>, <<"D","D","P">>, <<"D","D","F">>,
                 <<"C","D","S">>, <<"A","S","M">>, <<"A","S","F">> }

C2_FlaggedHits ==
    { h \in DOMAIN HitsOfText :
        \E i \in 1..Len(HitsOfText[h].categories) :
            HitsOfText[h].categories[i] \in C2_FlagCats }

\* C2: whenever match returns a hit whose category list holds one of PS, DDP, DDF,
\* CDS, ASM, ASF, the toxicity score returns is at least 0.98, whatever the weights
\* of the hits and whatever the other heuristics yield.
C2_AlwaysFlagForcesToxicity ==
    (~IsNone(scores) /\ C2_FlaggedHits # {}) => Val(scores)["toxicity"] >= 9800

\* the only always-flag hit of the scored text has weight 0
C2_Witness ==
    /\ ~IsNone(scores)
    /\ C2_FlaggedHits # {}
    /\ \A h \in C2_FlaggedHits : HitsOfText[h].weight = 0
    /\ Val(scores)["toxicity"] >= 9800

C7_IWillKillYou == <<"I"," ","w","i","l","l"," ","k","i","l","l"," ","y","o","u">>

\* how many of the four threat patterns the scored text matches
C7_PatternsMatched ==
    LET s == Lower(TextString)
        b == WordBoundary(s, AllPos(s))
    IN  Cardinality({ n \in 1..4 :
            \/ n = 1 /\ ThreatPattern1(s, b)
            \/ n = 2 /\ ThreatPattern2(s, b)
            \/ n = 3 /\ ThreatPattern3(s, b)
            \/ n = 4 /\ ThreatPattern4(s, b) })

\* C7: threat is 0.95 when the raw text matches at least one threat pattern and 0
\* otherwise, never another value however many patterns match; when threat is 0.95
\* toxicity is at least 0.9; "I will kill you" is such a text.
C7_ThreatFlat ==
    ~IsNone(scores) =>
        /\ Val(scores)["threat"] = (IF C7_PatternsMatched >= 1 THEN 9500 ELSE 0)
        /\ Val(scores)["threat"] = 9500 => Val(scores)["toxicity"] >= 9000
        /\ TextString = C7_IWillKillYou => Val(scores)["threat"] = 9500

\* "I will kill you" was scored: it matches two patterns
C7_Witness ==
    /\ ~IsNone(scores)
    /\ TextString = C7_IWillKillYou
    /\ C7_PatternsMatched = 2
    /\ Val(scores)["threat"] = 9500
    /\ Val(scores)["toxicity"] >= 9000

\* the lexicon's weights are as the data model has them: none is negative
C8_WeightsNonNegative ==
    ~IsNone(LEX) /\ \A term \in DOMAIN Val(LEX).weights : Val(LEX).weights[term] >= 0

C9_Blank == \A i \in 1..Len(TextString) : IsSpace(TextString[i])

\* C9: a text with no lexicon hit that matches no threat pattern and no stereotype
\* frame scores 0 on all six labels; None, the empty string and a text of white
\* space only are such texts.
C9_NoSignalAllZero ==
    ~IsNone(scores) =>
        /\ (DOMAIN HitsOfText = {} /\ ~ThreatHit(TextString) /\ ~StereoHit(TextString))
              => (DOMAIN Val(scores) = SixLabels /\ AllZero(Val(scores)))
        /\ C9_Blank => (DOMAIN Val(scores) = SixLabels /\ AllZero(Val(scores)))

\* a text of two white-space characters was scored against a lexicon with terms
C9_Witness ==
    /\ ~IsNone(scores)
    /\ DOMAIN Val(LEX).weights # {}
    /\ Len(TextString) = 2
    /\ C9_Blank
    /\ AllZero(Val(scores))

\* C10: loading an artifact that lacks the "weights" key or the "categories" key
\* fails: the import ends with an error and no Lexicon.
C10_MissingKeyFails ==
    ( /\ phase # "import"
      /\ ~IsNone(artifact)
      /\ ~({"weights", "categories"} \subseteq Val(artifact).keys) )
        => (phase = "failed" /\ IsNone(LEX) /\ ~IsNone(error))

\* the sum of the weights of the hits, each hit counted once
C17_HitWeights ==
    SumOver([ t \in DOMAIN HitsOfText |-> HitsOfText[t].weight ], DOMAIN HitsOfText)

\* C17: for a text with at least one hit, no always-flag category and no threat
\* match, the value handed to the ramp for toxicity is the sum of the weights of
\* the hits, each hit counted once however many categories it has (none included),
\* and toxicity = min(0.85, ramp(that sum)).
C17_BaseToxicity ==
    ( /\ ~IsNone(scores)
      /\ DOMAIN HitsOfText # {}
      /\ ~HasAlwaysFlag(HitsOfText)
      /\ ~ThreatHit(TextString) )
        => /\ Val(raw).toxicity = Min2(850000, Ramp(C17_HitWeights))
           /\ Val(scores)["toxicity"] = Round4(Min2(850000, Ramp(C17_HitWeights)))

\* the text holds, at some position, a frame "all X are/r Y" or "every X is/are Y"
\* whose subject X is an identity term
C18_IdentityFrameOccurs ==
    LET s == Lower(TextString)
        b == WordBoundary(s, AllPos(s))
        all == FrameMatches(s, b, <<"a","l","l">>, { <<"a","r","e">>, <<"r">> })
        every == FrameMatches(s, b, <<"e","v","e","r","y">>, { <<"i","s">>, <<"a","r","e">> })
    IN  \E m \in all \cup every : SubSeq(s, m[2], m[3] - 1) \in IDENTITY_WORDS

\* C18: a text that holds an occurrence of a frame whose subject is an identity
\* term gets identity_attack >= 0.80, wherever the occurrence is and whatever other
\* frames the text holds; with no such frame and no lexicon hit identity_attack is 0.
C18_StereotypeAnywhere ==
    ~IsNone(scores) =>
        /\ C18_IdentityFrameOccurs => Val(scores)["identity_attack"] >= 8000
        /\ (~C18_IdentityFrameOccurs /\ DOMAIN HitsOfText = {})
              => Val(scores)["identity_attack"] = 0

----------------------------------------------------------------------------
(* Properties of decide_action, checked under PolicySpec *)

\* no row of the policies table is for the scope of the decision
NoOverrideStored(d) ==
    \A key \in DOMAIN policies : ~(key[1] = d.guild /\ key[2] = d.channel)

\* C3: for each label, decide uses the threshold stored for (guild, channel, label)
\* whenever one is stored, 0.0 included, and the label's default only when none is
\* stored; the threshold in the detail is the one compared.
C3_StoredOverrideUsed ==
    ~IsNone(decision) =>
        LET d == Val(decision)
        IN  \A k \in DOMAIN d.details \cap SixLabels :
              /\ d.details[k].threshold =
                    (IF <<d.guild, d.channel, k>> \in DOMAIN policies
                     THEN policies[<<d.guild, d.channel, k>>]
                     ELSE DEFAULTS[k])
              /\ d.details[k].over <=> (d.scores[k] >= d.details[k].threshold)

\* C4: a label is over exactly when its score >= its threshold, equality included,
\* and triggered is true exactly when some label is over; with no stored override,
\* toxicity 0.5 and 0 elsewhere triggers and toxicity 0.49 and 0 elsewhere does not.
C4_OverAndTriggered ==
    ~IsNone(decision) =>
        LET d == Val(decision)
        IN  /\ \A k \in DOMAIN d.details :
                 /\ d.details[k].score = d.scores[k]
                 /\ d.details[k].over <=> (d.details[k].score >= d.details[k].threshold)
            /\ d.over <=> (\E k \in DOMAIN d.details : d.details[k].over)
            /\ (NoOverrideStored(d) /\ d.scores = OnlyToxicity(5000)) => d.over
            /\ (NoOverrideStored(d) /\ d.scores = OnlyToxicity(4900)) => ~d.over

\* toxicity 0.5 was decided with no override stored: the score equals the threshold
C4_Witness ==
    /\ ~IsNone(decision)
    /\ NoOverrideStored(Val(decision))
    /\ Val(decision).scores = OnlyToxicity(5000)
    /\ Val(decision).details["toxicity"].threshold = 5000
    /\ Val(decision).over

\* C5: the detail map decide returns has an entry for each of the six labels and
\* for no other key, whatever keys the scores passed in have.
C5_DetailsForSixLabels ==
    ~IsNone(decision) => DOMAIN Val(decision).details = SixLabels

----------------------------------------------------------------------------
(* Properties of the compiler, the loader and the matcher, checked under LexSpec *)

\* the terms of the loaded Lexicon's phrase list
PhraseTerms == { Val(LEX).phrases[p][2] : p \in 1..Len(Val(LEX).phrases) }

\* C11: for every artifact that loads, every entry of the phrase list has a token
\* sequence of length >= 2 (terms with a leading, trailing or lone hyphen or space
\* included), and every term of the weight map is in exactly one of the word set
\* and the phrase list.
C11_PhrasesAndWordsPartition ==
    ~IsNone(LEX) =>
        /\ \A p \in 1..Len(Val(LEX).phrases) : Len(Val(LEX).phrases[p][1]) >= 2
        /\ \A term \in DOMAIN Val(LEX).weights :
             (term \in Val(LEX).words) # (term \in PhraseTerms)

\* C12: for every artifact that loads, every term of the Lexicon's weights map has
\* an entry (possibly an empty list) in its categories map.
C12_EveryWeightHasCategories ==
    ~IsNone(LEX) => DOMAIN Val(LEX).weights \subseteq DOMAIN Val(LEX).categories

\* the terms build_model returned weights for
BuiltTerms == { Val(built).weights[i][1] : i \in 1..Len(Val(built).weights) }

\* C13: the weights and categories build_model computed and wrote are those of the
\* Lexicon loaded from the written artifact: the same term set, the same weight
\* and the same category list per term.
C13_RoundTrip ==
    (~IsNone(built) /\ ~IsNone(LEX)) =>
        /\ DOMAIN Val(LEX).weights = BuiltTerms
        /\ DOMAIN Val(LEX).categories = BuiltTerms
        /\ \A i \in 1..Len(Val(built).weights) :
             Val(LEX).weights[Val(built).weights[i][1]] = Val(built).weights[i][2]
        /\ \A i \in 1..Len(Val(built).categories) :
             Val(LEX).categories[Val(built).categories[i][1]] = Val(built).categories[i][2]

\* the file whose lemma cells are in mixed case and padded was compiled and its
\* artifact loaded: ten terms, "scum" with the categories of both of its rows
C13_Witness ==
    /\ ~IsNone(built)
    /\ ~IsNone(LEX)
    /\ table = Some(FileHeader)
    /\ Cardinality(DOMAIN Val(LEX).weights) = 10
    /\ Val(LEX).categories[<<"s","c","u","m">>] = << <<"P","S">>, <<"Q","A","S">> >>
    /\ Val(LEX).weights[<<"s","c","u","m">>] = 3000

\* C14: the artifact the compiler writes has exactly two top-level fields, weights
\* and categories.
C14_ExactlyTwoFields ==
    ~IsNone(built) => Val(artifact).keys = {"weights", "categories"}

\* the tokens of the text handed to match
TokensOfText == Tokens(text)

\* toks holds the tokens of ptoks contiguously
HoldsContiguously(toks, ptoks) ==
    \E start \in 1..(Len(toks) - Len(ptoks) + 1) :
        SubSeq(toks, start, start + Len(ptoks) - 1) = ptoks

\* every registered phrase of two or more tokens that toks holds is a phrase hit
C15_PhrasesHit(lex, toks, h) ==
    \A p \in 1..Len(lex.phrases) :
        (Len(lex.phrases[p][1]) >= 2 /\ HoldsContiguously(toks, lex.phrases[p][1])) =>
            /\ lex.phrases[p][2] \in DOMAIN h
            /\ h[lex.phrases[p][2]].kind = "phrase"

\* C15: for every registered phrase of two or more tokens and every text whose
\* token sequence holds the phrase's tokens contiguously, match returns a hit
\* keyed by the phrase's term with kind "phrase", also when none of its words is
\* a registered term and when other phrases match at the same position.
C15_PhraseMatching ==
    ~IsNone(lastHits) => C15_PhrasesHit(Val(LEX), TokensOfText, Val(lastHits))

\* "bad egg salad" was matched against a lexicon that registers "bad egg", "bad-egg",
\* "bad egg salad" and "egg salad" and none of the three words
C15_Witness ==
    /\ ~IsNone(lastHits)
    /\ text = Some(<<"b","a","d"," ","e","g","g"," ","s","a","l","a","d">>)
    /\ { <<"b","a","d"," ","e","g","g">>, <<"b","a","d","-","e","g","g">>,
         <<"b","a","d"," ","e","g","g"," ","s","a","l","a","d">>,
         <<"e","g","g"," ","s","a","l","a","d">> } \subseteq DOMAIN Val(lastHits)
    /\ \A h \in DOMAIN Val(lastHits) : Val(lastHits)[h].kind = "phrase"
    /\ Val(LEX).words \cap { <<"b","a","d">>, <<"e","g","g">>, <<"s","a","l","a","d">> } = {}

C16_Suffixes == { <<"s">>, <<"e","s">>, <<"e","d">>, <<"i","n","g">>, <<"e","r">>,
                  <<"e","s","t">> }

\* every token of toks that is a registered word of length >= 2, or that word
\* with one of the six suffixes, comes with a word hit keyed by the word
C16_InflectionsHit(lex, toks, h) ==
    \A w \in lex.words :
        \A i \in 1..Len(toks) :
            (Len(w) >= 2 /\ toks[i] \in { w \o suf : suf \in C16_Suffixes \cup {<<>>} })
              => (w \in DOMAIN h /\ h[w].kind = "word")

\* the candidates of a token other than itself have length >= 2 and come from a
\* suffix the token is longer than by more than one; a short token yields itself
C16_Guarded(tok, cands) ==
    /\ \A c \in cands \ {tok} :
          /\ Len(c) >= 2
          /\ \/ tok = DropLast(c, 1) \o <<"i","e","s">>
             \/ \E suf \in C16_Suffixes : tok = c \o suf /\ Len(tok) > Len(suf) + 1
    /\ Len(tok) <= 2 => cands = {tok}

C16_TokensGuarded(toks, h) ==
    \A i \in 1..Len(toks) :
        /\ C16_Guarded(toks[i], SimpleLemmas(toks[i]))
        /\ toks[i] = <<"a","s">> => <<"a">> \notin DOMAIN h

Bears(t, c) ==
    \E i \in 1..Len(Val(lastHits)[t].categories) : Val(lastHits)[t].categories[i] = c

\* C19: for every hit set and every category c, the summed value of c is the sum of
\* the weights of the hits that bear c, each such hit counted exactly once; a
\* category no hit bears is absent from the result.
C19_SummarizeByCategory ==
    ~IsNone(lastPerCat) =>
        /\ DOMAIN Val(lastPerCat) =
             { c \in UNION { { Val(lastHits)[t].categories[i] :
                                 i \in 1..Len(Val(lastHits)[t].categories) } :
                             t \in DOMAIN Val(lastHits) } : TRUE }
        /\ \A c \in DOMAIN Val(lastPerCat) :
             Val(lastPerCat)[c] =
               SumOver([ t \in DOMAIN Val(lastHits) |->
                           IF Bears(t, c) THEN Val(lastHits)[t].weight ELSE 0 ],
                       DOMAIN Val(lastHits))

\* the categories build_model was given for its i-th term, as a set
C20_Cats(i) ==
    { Val(built).categories[i][2][j] : j \in 1..Len(Val(built).categories[i][2]) }

\* C20: build_model gives every term the weight 1.0, + 0.5 if one of its categories
\* is in {DMC,QAS,SVP,RE}, + 1.0 if one is in {ASM,ASF}, + 1.5 if one is in
\* {PS,DDP,DDF,CDS}, + 0.5 if the term has a space or a hyphen, each bonus once at
\* most; every weight is between 1.0 and 4.5.
C20_CompilerWeight ==
    ~IsNone(built) =>
        \A i \in 1..Len(Val(built).weights) :
            LET term == Val(built).weights[i][1]
                w == Val(built).weights[i][2]
                cats == C20_Cats(i)
            IN  /\ Val(built).categories[i][1] = term
                /\ w = 1000
                     + (IF cats \cap { <<"D","M","C">>, <<"Q","A","S">>, <<"S","V","P">>,
                                        <<"R","E">> } # {} THEN 500 ELSE 0)
                     + (IF cats \cap { <<"A","S","M">>, <<"A","S","F">> } # {}
                        THEN 1000 ELSE 0)
                     + (IF cats \cap { <<"P","S">>, <<"D","D","P">>, <<"D","D","F">>,
                                        <<"C","D","S">> } # {} THEN 1500 ELSE 0)
                     + (IF \E j \in 1..Len(term) : term[j] \in {" ", "-"}
                        THEN 500 ELSE 0)
                /\ 1000 <= w /\ w <= 4500

\* a table was compiled whose terms get the least and the greatest weight, the
\* greatest for a hyphen term with two categories of one group
C20_Witness ==
    /\ ~IsNone(built)
    /\ \E i \in 1..Len(Val(built).weights) : Val(built).weights[i][2] = 1000
    /\ \E i \in 1..Len(Val(built).weights) :
         /\ Val(built).weights[i][2] = 4500
         /\ { <<"Q","A","S">>, <<"R","E">> } \subseteq C20_Cats(i)

\* C21: for every term t of a loaded Lexicon's weight map, match applied to the
\* term's own text returns a hit keyed by t that carries t's weight and t's
\* categories: no loaded term is out of the matcher's reach.
C21_SelfMatch ==
    ( /\ ~IsNone(lastHits)
      /\ ~IsNone(text)
      /\ Val(text) \in DOMAIN Val(LEX).weights )
        => /\ Val(text) \in DOMAIN Val(lastHits)
           /\ Val(lastHits)[Val(text)].weight = Val(LEX).weights[Val(text)]
           /\ Val(lastHits)[Val(text)].categories =
                (IF Val(text) \in DOMAIN Val(LEX).categories
                 THEN Val(LEX).categories[Val(text)] ELSE <<>>)

====
